---- MODULE Spec2Model ----
(***************************************************************************)
(* Model of the Hyperion delphioracle plugin (src/src/index.ts):           *)
(*   - getIntervalConfig, the interval classifier;                         *)
(*   - the GET /v2/oracle/get_datapoints_histogram handler, split at its   *)
(*     single await (elastic.search);                                      *)
(*   - the GET /v2/history/get_oracle_datapoints readiness route;          *)
(*   - the constructor and the delta handler it registers.                 *)
(* JavaScript values are modelled as records [k, n, s] (kind, number,      *)
(* string) so that truthiness (||, &&, if) is computed as JavaScript does. *)
(***************************************************************************)
EXTENDS Integers, Sequences, FiniteSets, TLC

VARIABLES
    config,          \* the DelphioracleConfig given to the constructor
    baseConfig,      \* this.baseConfig, set by super(config)
    deltaHandlers,   \* this.deltaHandlers after construction
    pc,              \* position of the request in flight
    route,           \* which route the request in flight is on
    query,           \* request.query of the request in flight
    clockReads,      \* the values Date.now() / new Date() returned to it
    locals,          \* the handler's locals that live across the await
    searchCalls,     \* the arguments of every elastic.search call it made
    outcome,         \* how the awaited search ended (resolved / rejected)
    replies,         \* every reply.send of the request, in order
    logged,          \* every server.log.error of the request
    deltaIn,         \* the delta record as given to the delta handler
    delta,           \* the same record after the handler ran on it
    token,           \* the interval token under classification
    via,             \* how it reached getIntervalConfig
    classified,      \* what getIntervalConfig returned for it
    histogramConfig  \* the dateHistogramConfig built from that

vars == <<config, baseConfig, deltaHandlers, pc, route, query, clockReads,
          locals, searchCalls, outcome, replies, logged, deltaIn, delta,
          token, via, classified, histogramConfig>>

requestVars == <<pc, route, query, clockReads, locals, searchCalls, outcome,
                 replies, logged>>
pluginVars == <<config, baseConfig, deltaHandlers>>
deltaVars == <<deltaIn, delta>>
classifyVars == <<token, via, classified, histogramConfig>>

----------------------------------------------------------------------------
(* JavaScript values *)

Undef == [k |-> "undefined", n |-> 0, s |-> ""]
Null == [k |-> "null", n |-> 0, s |-> ""]
Num(n) == [k |-> "number", n |-> n, s |-> ""]
Str(s) == [k |-> "string", n |-> 0, s |-> s]
\* the object { value: n, relation: s } (hits.total of Elasticsearch 7 and later)
TotalObj(n, s) == [k |-> "object", n |-> n, s |-> s]

\* ToBoolean: undefined, null, 0 and "" are falsy.
Truthy(v) ==
    CASE v.k = "string" -> v.s # ""
      [] v.k = "number" -> v.n # 0
      [] v.k = "object" -> TRUE
      [] OTHER -> FALSE

\* a || b
Or(a, b) == IF Truthy(a) THEN a ELSE b

----------------------------------------------------------------------------
(* Interval classification *)

CALENDAR_INTERVALS == <<"1m", "1h", "1d", "1w", "1M", "1q", "1y">>

FIXED_INTERVALS ==
    <<"1m", "2m", "5m", "10m", "15m", "20m", "30m",
      "1h", "2h", "3h", "4h", "5h", "6h", "8h", "12h",
      "1d", "2d", "3d", "7d", "1w", "2w">>

\* Array.prototype.includes on an array of strings
includes(arr, v) == v.k = "string" /\ \E i \in 1..Len(arr) : arr[i] = v.s

\* getIntervalConfig with the calendar and fixed lookups swapped
getIntervalConfigFixedFirst(interval) ==
    IF ~Truthy(interval) THEN [interval |-> "1h", type |-> "calendar"]
    ELSE IF includes(FIXED_INTERVALS, interval)
         THEN [interval |-> interval.s, type |-> "fixed"]
    ELSE IF includes(CALENDAR_INTERVALS, interval)
         THEN [interval |-> interval.s, type |-> "calendar"]
    ELSE [interval |-> "1h", type |-> "calendar"]

getIntervalConfig(interval) ==
    IF ~Truthy(interval) THEN [interval |-> "1h", type |-> "calendar"]
    ELSE IF includes(CALENDAR_INTERVALS, interval)
         THEN [interval |-> interval.s, type |-> "calendar"]
    ELSE IF includes(FIXED_INTERVALS, interval)
         THEN [interval |-> interval.s, type |-> "fixed"]
    ELSE [interval |-> "1h", type |-> "calendar"]

\* lines 123-132: the date_histogram descriptor for a classified interval
dateHistogramConfig(ic) ==
    IF ic.type = "calendar"
    THEN [field |-> "@timestamp", calendar_interval |-> Str(ic.interval),
          fixed_interval |-> Undef]
    ELSE [field |-> "@timestamp", calendar_interval |-> Undef,
          fixed_interval |-> Str(ic.interval)]

----------------------------------------------------------------------------
(* Dates.  Instants are milliseconds counted from 2024-01-01T00:00:00.000Z; *)
(* the formatter below is exact for instants within January 2024.          *)

DayMs == 24 * 60 * 60 * 1000
HourMs == 60 * 60 * 1000

\* how many milliseconds the clock may advance past BaseNow
MaxTick == 1
\* the clock when a request arrives: 2024-01-03T12:00:00.000Z
BaseNow == 2 * DayMs + 12 * HourMs
\* what Date.now() and new Date() may return while it is handled
NowValues == BaseNow..(BaseNow + MaxTick)

Pad2(n) == IF n < 10 THEN "0" \o ToString(n) ELSE ToString(n)
Pad3(n) == IF n < 10 THEN "00" \o ToString(n)
           ELSE IF n < 100 THEN "0" \o ToString(n) ELSE ToString(n)

\* Date.prototype.toISOString of a valid instant
IsoText(ms) ==
    LET day == (ms \div DayMs) + 1
        r   == ms % DayMs
        hh  == r \div 3600000
        mm  == (r % 3600000) \div 60000
        ss  == (r % 60000) \div 1000
        mmm == r % 1000
    IN "2024-01-" \o Pad2(day) \o "T" \o Pad2(hh) \o ":" \o Pad2(mm) \o ":"
       \o Pad2(ss) \o "." \o Pad3(mmm) \o "Z"

InvalidDate == [valid |-> FALSE, ms |-> 0]
DateOf(ms) == [valid |-> TRUE, ms |-> ms]

\* the instants whose canonical text the model meets
KnownInstants == {0, DayMs} \cup NowValues \cup {n - DayMs : n \in NowValues}

\* new Date(text): the canonical text of an instant parses to that instant,
\* two other ISO forms parse to theirs, anything else is an invalid date
NewDate(text) ==
    CASE text = "2024-01-01T00:00:00Z" -> DateOf(0)
      [] text = "2024-01-02" -> DateOf(DayMs)
      [] \E ms \in KnownInstants : IsoText(ms) = text ->
             DateOf(CHOOSE ms \in KnownInstants : IsoText(ms) = text)
      [] OTHER -> InvalidDate

\* Date.prototype.toISOString: a RangeError on an invalid date
RangeErrorInvalidTime == [name |-> "RangeError", message |-> "Invalid time value"]

\* timeRange with the default lower bound not moved back by 24 hours
TimeRangeNoShift(q, n1, n2) ==
    LET gteDate == IF Truthy(q.after) THEN NewDate(q.after.s) ELSE DateOf(n1)
        lteDate == IF Truthy(q.before) THEN NewDate(q.before.s)
                   ELSE DateOf(n2)
        reads1  == IF Truthy(q.after) THEN <<>> ELSE <<n1>>
        reads2  == IF Truthy(q.before) THEN <<>> ELSE <<n2>>
    IN  IF ~gteDate.valid
        THEN [threw |-> TRUE, gte |-> "", lte |-> "", reads |-> reads1]
        ELSE IF ~lteDate.valid
        THEN [threw |-> TRUE, gte |-> IsoText(gteDate.ms), lte |-> "",
              reads |-> reads1 \o reads2]
        ELSE [threw |-> FALSE, gte |-> IsoText(gteDate.ms),
              lte |-> IsoText(lteDate.ms), reads |-> reads1 \o reads2]

\* timeRange with toISOString giving a marker for an invalid date, not throwing
TimeRangeUnguarded(q, n1, n2) ==
    LET gteDate == IF Truthy(q.after) THEN NewDate(q.after.s)
                   ELSE DateOf(n1 - DayMs)
        lteDate == IF Truthy(q.before) THEN NewDate(q.before.s)
                   ELSE DateOf(n2)
        reads1  == IF Truthy(q.after) THEN <<>> ELSE <<n1>>
        reads2  == IF Truthy(q.before) THEN <<>> ELSE <<n2>>
        text(d) == IF d.valid THEN IsoText(d.ms) ELSE "Invalid Date"
    IN  [threw |-> FALSE, gte |-> text(gteDate), lte |-> text(lteDate),
         reads |-> reads1 \o reads2]

\* lines 107-120: timeRange.  n1 is what Date.now() returns on line 113 and
\* n2 what new Date() returns on line 119; each is read only on its else
\* branch, and the second statement is not reached when the first one throws.
TimeRange(q, n1, n2) ==
    LET gteDate == IF Truthy(q.after) THEN NewDate(q.after.s)
                   ELSE DateOf(n1 - DayMs)
        lteDate == IF Truthy(q.before) THEN NewDate(q.before.s)
                   ELSE DateOf(n2)
        reads1  == IF Truthy(q.after) THEN <<>> ELSE <<n1>>
        reads2  == IF Truthy(q.before) THEN <<>> ELSE <<n2>>
    IN  IF ~gteDate.valid
        THEN [threw |-> TRUE, gte |-> "", lte |-> "", reads |-> reads1]
        ELSE IF ~lteDate.valid
        THEN [threw |-> TRUE, gte |-> IsoText(gteDate.ms), lte |-> "",
              reads |-> reads1 \o reads2]
        ELSE [threw |-> FALSE, gte |-> IsoText(gteDate.ms),
              lte |-> IsoText(lteDate.ms), reads |-> reads1 \o reads2]

----------------------------------------------------------------------------
(* The plugin object *)

\* lines 245-279: the handler registration the constructor pushes.  key is
\* '@' + tableName, used both for mappings.delta and by the handler.
Constructor(cfg) ==
    LET tableName == Or(cfg.table, Str("datapoints")).s
    IN  <<[table    |-> tableName,
           contract |-> Or(cfg.contract, Str("delphioracle")).s,
           key      |-> "@" \o tableName,
           mappings |-> [value |-> "long", owner |-> "keyword",
                         median |-> "long"]]>>

\* the handler without its delete of delta['data']
DeltaHandlerKeepData(h, d) ==
    IF Truthy(d.data.value) /\ Truthy(d.data.median) /\ Truthy(d.data.owner)
    THEN [d EXCEPT !.nested = [present |-> TRUE, key |-> h.key,
                               owner |-> d.data.owner,
                               value |-> d.data.value,
                               median |-> d.data.median]]
    ELSE d

\* lines 266-277: the registered handler, on a delta whose payload is `data`
DeltaHandler(h, d) ==
    IF Truthy(d.data.value) /\ Truthy(d.data.median) /\ Truthy(d.data.owner)
    THEN [d EXCEPT !.hasData = FALSE,
                   !.data = [value |-> Undef, median |-> Undef, owner |-> Undef],
                   !.nested = [present |-> TRUE, key |-> h.key,
                               owner |-> d.data.owner,
                               value |-> d.data.value,
                               median |-> d.data.median]]
    ELSE d

----------------------------------------------------------------------------
(* The histogram route, up to its await *)

\* extServer.manager.chain of the deployment
Chain == "telos"

\* The field the four per-bucket statistics aggregate over (lines 139-158)
ValueField == "@datapoints.value"
MedianField == "@datapoints.median"

\* the defaults applied with ?? (only to an absent value) instead of ||
DefaultsNullish(base, q) ==
    [contractName   |-> IF base.contract = Undef THEN "delphioracle"
                        ELSE base.contract.s,
     tableName      |-> IF base.table = Undef THEN "datapoints"
                        ELSE base.table.s,
     scope          |-> IF q.scope = Undef THEN "tlosusd" ELSE q.scope.s,
     intervalConfig |-> getIntervalConfig(Or(q.interval, Str("1h"))),
     size           |-> IF q.size = Undef THEN 0 ELSE q.size.n]

\* lines 99-105: contractName, tableName, scope, intervalConfig, size
Defaults(base, q) ==
    [contractName   |-> Or(base.contract, Str("delphioracle")).s,
     tableName      |-> Or(base.table, Str("datapoints")).s,
     scope          |-> Or(q.scope, Str("tlosusd")).s,
     intervalConfig |-> getIntervalConfig(Or(q.interval, Str("1h"))),
     size           |-> Or(q.size, Num(0)).n]

\* lines 134-205: the argument of elastic.search
SearchArgs(d, tr) ==
    [index |-> Chain \o "-delta-*",
     date_histogram |-> dateHistogramConfig(d.intervalConfig),
     aggs |-> [average_price |-> [op |-> "avg", field |-> ValueField],
               min_price     |-> [op |-> "min", field |-> ValueField],
               max_price     |-> [op |-> "max", field |-> ValueField],
               median_price  |-> [op |-> "avg", field |-> MedianField]],
     size |-> d.size,
     range |-> [format |-> "strict_date_optional_time",
                gte |-> tr.gte, lte |-> tr.lte],
     code |-> d.contractName,
     table |-> d.tableName,
     scope |-> d.scope]

\* the catch block replying without the raised error's message
ErrorReplyGeneric(e) ==
    [status |-> 500, kind |-> "error",
     body |-> [error |-> "Internal server error",
               message |-> "Internal server error"]]

\* lines 235-241: the catch block's reply
ErrorReply(e) ==
    [status |-> 500, kind |-> "error",
     body |-> [error |-> "Internal server error", message |-> e.message]]

----------------------------------------------------------------------------
(* Response shaping *)

\* bucket.<stat>?.value || null
StatOut(st) == IF st.present THEN Or(st.value, Null) ELSE Null

\* lines 224-231 with the raw key preferred over key_as_string
ShapeBucketRawKey(b) ==
    [timestamp    |-> b.key,
     doc_count    |-> b.doc_count,
     average_price |-> StatOut(b.average_price),
     min_price     |-> StatOut(b.min_price),
     max_price     |-> StatOut(b.max_price),
     median_price  |-> StatOut(b.median_price)]

\* lines 224-231: one bucket of the response
ShapeBucket(b) ==
    [timestamp    |-> Or(b.key_as_string, b.key),
     doc_count    |-> b.doc_count,
     average_price |-> StatOut(b.average_price),
     min_price     |-> StatOut(b.min_price),
     max_price     |-> StatOut(b.max_price),
     median_price  |-> StatOut(b.median_price)]

TypeErrorHits ==
    [name |-> "TypeError",
     message |-> "Cannot read properties of undefined (reading 'hits')"]
TypeErrorMap ==
    [name |-> "TypeError",
     message |-> "results.aggregations.histogram.buckets.map is not a function"]

\* results.aggregations?.histogram?.buckets is there (and so truthy)
HasBuckets(res) == res.hasAggregations /\ res.hasHistogram /\ res.hasBuckets

\* lines 207-232: the response built from the store's results, or the
\* TypeError raised on the way
Shape(res, l) ==
    IF ~res.defined THEN [threw |-> TRUE, error |-> TypeErrorHits]
    ELSE IF HasBuckets(res) /\ ~res.bucketsIsArray
    THEN [threw |-> TRUE, error |-> TypeErrorMap]
    ELSE [threw |-> FALSE,
          response |->
            [query_time_ms |-> 0,
             scope |-> l.scope,
             contract |-> l.contractName,
             table |-> l.tableName,
             interval |-> l.intervalConfig.interval,
             time_range |-> [from |-> l.gte, to |-> l.lte],
             total_documents |->
                 IF res.hasHits THEN Or(res.total, Num(0)) ELSE Num(0),
             histogram |->
                 IF HasBuckets(res)
                 THEN [i \in 1..Len(res.buckets) |-> ShapeBucket(res.buckets[i])]
                 ELSE <<>>]]

----------------------------------------------------------------------------
(* Bounds and input domains *)

\* the largest statistic value a bucket of the store carries
MaxValue == 1
\* the longest bucket list the store returns
MaxBuckets == 2

Configs ==
    [table : {Undef, Str(""), Str("prices")},
     contract : {Undef, Str(""), Str("myoracle")}]

DateTexts ==
    {Undef, Str(""), Str("2024-01-01T00:00:00Z"),
     Str("2024-01-02T00:00:00.000Z"), Str("not-a-date")}

Queries ==
    [scope : {Undef, Str(""), Str("eosusd")},
     interval : {Undef, Str("2h"), Str("3m")},
     after : DateTexts,
     before : DateTexts,
     size : {Undef, Num(2)}]

\* the query with no parameters
EmptyQuery ==
    [scope |-> Undef, interval |-> Undef, after |-> Undef, before |-> Undef,
     size |-> Undef]

\* every member of both whitelists, and tokens of neither
Tokens ==
    {Undef, Str(""), Str("3m"), Str("1s"), Str("1H"), Str("24h"), Str("4w"),
     Str("hour")}
    \cup {Str(CALENDAR_INTERVALS[i]) : i \in 1..Len(CALENDAR_INTERVALS)}
    \cup {Str(FIXED_INTERVALS[i]) : i \in 1..Len(FIXED_INTERVALS)}

(* Store results.  A sub-aggregation of a bucket is absent, or carries a     *)
(* value that is null (no document had the field) or a number.               *)
Absent == [present |-> FALSE, value |-> Undef]
Stats == {Absent} \cup {[present |-> TRUE, value |-> v] :
                         v \in {Null} \cup {Num(n) : n \in 0..MaxValue}}

BucketKeys == {0, HourMs}

\* a bucket of a date_histogram: key_as_string, when there, is the key's text
BucketOf(key, hasText, dc, a, mi, ma, me) ==
    [key_as_string |-> IF hasText THEN Str(IsoText(key)) ELSE Undef,
     key |-> Num(key), doc_count |-> Num(dc),
     average_price |-> a, min_price |-> mi, max_price |-> ma,
     median_price |-> me]

\* buckets with every combination of computed and missing statistics
Buckets ==
    {BucketOf(0, hasText, dc, a, mi, ma, me) :
        hasText \in BOOLEAN, dc \in {0, 3},
        a \in Stats, mi \in Stats, ma \in Stats, me \in Stats}

Computed == [present |-> TRUE, value |-> Num(MaxValue)]

\* buckets with all four statistics computed
PlainBuckets ==
    {BucketOf(key, hasText, dc, Computed, Computed, Computed, Computed) :
        key \in BucketKeys, hasText \in BOOLEAN, dc \in {0, 3}}

RECURSIVE SeqsUpTo(_, _)
SeqsUpTo(S, n) ==
    IF n = 0 THEN {<<>>}
    ELSE LET shorter == SeqsUpTo(S, n - 1)
         IN  shorter \cup {Append(q, x) : q \in {r \in shorter : Len(r) = n - 1},
                                          x \in S}

BucketLists ==
    {<<b>> : b \in Buckets} \cup SeqsUpTo(PlainBuckets, MaxBuckets)

Totals == {Undef, Num(0), Num(5), TotalObj(5, "eq")}

NoResults ==
    [defined |-> FALSE, hasHits |-> FALSE, total |-> Undef,
     hasAggregations |-> FALSE, hasHistogram |-> FALSE, hasBuckets |-> FALSE,
     bucketsIsArray |-> FALSE, buckets |-> <<>>]

\* { hits: { total }, aggregations: { histogram: { buckets } } }
ResultsOf(hasHits, total, bs) ==
    [NoResults EXCEPT !.defined = TRUE, !.hasHits = hasHits, !.total = total,
                      !.hasAggregations = TRUE, !.hasHistogram = TRUE,
                      !.hasBuckets = TRUE, !.bucketsIsArray = TRUE,
                      !.buckets = bs]

\* results with no bucket list: no aggregations, no histogram, no buckets
Bucketless(hasHits, total) ==
    LET r == [NoResults EXCEPT !.defined = TRUE, !.hasHits = hasHits,
                               !.total = total]
    IN  {r,
         [r EXCEPT !.hasAggregations = TRUE],
         [r EXCEPT !.hasAggregations = TRUE, !.hasHistogram = TRUE]}

\* well-formed results of the search
ShapeResults ==
    UNION {Bucketless(TRUE, t) \cup {ResultsOf(TRUE, t, bs) : bs \in BucketLists}
           : t \in Totals}
    \cup Bucketless(FALSE, Undef)
    \cup {ResultsOf(FALSE, Undef, bs) : bs \in SeqsUpTo(PlainBuckets, 1)}

\* results on which shaping raises: undefined, and a bucket list that is no array
MalformedResults ==
    {NoResults,
     [ResultsOf(TRUE, Num(5), <<>>) EXCEPT !.bucketsIsArray = FALSE]}

\* the results the pipeline specification draws from
QueryResults ==
    MalformedResults
    \cup {[NoResults EXCEPT !.defined = TRUE],
          ResultsOf(TRUE, Num(5),
                    <<BucketOf(0, TRUE, 3, Computed, Computed, Computed, Absent)>>)}

\* errors the storage client rejects with
StoreErrors ==
    {[name |-> "ConnectionError", message |-> "connect ECONNREFUSED"],
     [name |-> "ResponseError", message |-> "search_phase_execution_exception"],
     [name |-> "Error", message |-> ""]}

NoError == [name |-> "", message |-> ""]
NoOutcome == [kind |-> "none", results |-> NoResults, error |-> NoError]

NoLocals ==
    [contractName |-> "", tableName |-> "", scope |-> "",
     intervalConfig |-> [interval |-> "", type |-> ""], size |-> 0,
     gte |-> "", lte |-> ""]

NoDelta ==
    [code |-> "", table |-> "", scope |-> "", hasData |-> FALSE,
     data |-> [value |-> Undef, median |-> Undef, owner |-> Undef],
     nested |-> [present |-> FALSE, key |-> "", owner |-> Undef,
                 value |-> Undef, median |-> Undef]]

\* deltas of the handler's contract and table, as the indexer passes them
DeltasFor(h) ==
    {[NoDelta EXCEPT !.code = h.contract, !.table = h.table,
                     !.scope = "tlosusd", !.hasData = TRUE,
                     !.data = [value |-> v, median |-> m, owner |-> o]] :
        v \in {Undef, Num(0), Num(5), Str("12345")},
        m \in {Undef, Num(0), Num(5), Str("12345")},
        o \in {Undef, Str(""), Str("alice")}}

NoClassified == [interval |-> "", type |-> ""]
NoHistogramConfig ==
    [field |-> "", calendar_interval |-> Undef, fixed_interval |-> Undef]

----------------------------------------------------------------------------
(* Initial state: the plugin as constructed, no request in flight *)

Init ==
    /\ config \in Configs
    /\ baseConfig = config
    /\ deltaHandlers = Constructor(config)
    /\ pc = "idle"
    /\ route = "none"
    /\ query = EmptyQuery
    /\ clockReads = <<>>
    /\ locals = NoLocals
    /\ searchCalls = <<>>
    /\ outcome = NoOutcome
    /\ replies = <<>>
    /\ logged = <<>>
    /\ deltaIn = NoDelta
    /\ delta = NoDelta
    /\ token = Undef
    /\ via = "none"
    /\ classified = NoClassified
    /\ histogramConfig = NoHistogramConfig

----------------------------------------------------------------------------
(* Actions *)

\* lines 82-84: the readiness route
GetOracleDatapoints ==
    /\ pc = "idle"
    /\ route' = "get_oracle_datapoints"
    /\ replies' = Append(replies,
                         [status |-> 200, kind |-> "message",
                          body |-> [message |-> "Delphioracle API is running!"]])
    /\ pc' = "replied"
    /\ UNCHANGED <<query, clockReads, locals, searchCalls, outcome, logged>>
    /\ UNCHANGED <<pluginVars, deltaVars, classifyVars>>

\* lines 87-205 and 235-241: the histogram handler from its entry to the
\* await of elastic.search, or to the catch block when timeRange throws
HandleRequest(q, n1, n2) ==
    /\ pc = "idle"
    /\ LET d  == Defaults(baseConfig, q)
           tr == TimeRange(q, n1, n2)
       IN  /\ route' = "get_datapoints_histogram"
           /\ query' = q
           /\ clockReads' = tr.reads
           /\ locals' = [contractName |-> d.contractName,
                         tableName |-> d.tableName,
                         scope |-> d.scope,
                         intervalConfig |-> d.intervalConfig,
                         size |-> d.size,
                         gte |-> tr.gte, lte |-> tr.lte]
           /\ IF tr.threw
              THEN /\ logged' = Append(logged, RangeErrorInvalidTime)
                   /\ replies' = Append(replies, ErrorReply(RangeErrorInvalidTime))
                   /\ pc' = "replied"
                   /\ UNCHANGED searchCalls
              ELSE /\ searchCalls' = Append(searchCalls, SearchArgs(d, tr))
                   /\ pc' = "awaiting"
                   /\ UNCHANGED <<logged, replies>>
    /\ UNCHANGED outcome
    /\ UNCHANGED <<pluginVars, deltaVars, classifyVars>>

\* lines 202-241: the search resolves with res; the response is shaped and
\* sent, or shaping throws and the catch block replies
SearchResolves(res) ==
    /\ pc = "awaiting"
    /\ outcome' = [kind |-> "resolved", results |-> res, error |-> NoError]
    /\ LET sh == Shape(res, locals)
       IN  IF sh.threw
           THEN /\ logged' = Append(logged, sh.error)
                /\ replies' = Append(replies, ErrorReply(sh.error))
           ELSE /\ replies' = Append(replies,
                                     [status |-> 200, kind |-> "histogram",
                                      body |-> sh.response])
                /\ UNCHANGED logged
    /\ pc' = "replied"
    /\ UNCHANGED <<route, query, clockReads, locals, searchCalls>>
    /\ UNCHANGED <<pluginVars, deltaVars, classifyVars>>

\* the handler searching a second time after a rejection before it replies
SearchRejectsRetry(e) ==
    /\ pc = "awaiting"
    /\ outcome' = [kind |-> "rejected", results |-> NoResults, error |-> e]
    /\ searchCalls' = Append(searchCalls, searchCalls[1])
    /\ logged' = Append(logged, e)
    /\ replies' = Append(replies, ErrorReply(e))
    /\ pc' = "replied"
    /\ UNCHANGED <<route, query, clockReads, locals>>
    /\ UNCHANGED <<pluginVars, deltaVars, classifyVars>>

\* lines 202 and 235-241: the search rejects with e; the catch block replies
SearchRejects(e) ==
    /\ pc = "awaiting"
    /\ outcome' = [kind |-> "rejected", results |-> NoResults, error |-> e]
    /\ logged' = Append(logged, e)
    /\ replies' = Append(replies, ErrorReply(e))
    /\ pc' = "replied"
    /\ UNCHANGED <<route, query, clockReads, locals, searchCalls>>
    /\ UNCHANGED <<pluginVars, deltaVars, classifyVars>>

\* the request is over; the next one starts from nothing (no shared state)
Finish ==
    /\ pc = "replied"
    /\ pc' = "idle"
    /\ route' = "none"
    /\ query' = EmptyQuery
    /\ clockReads' = <<>>
    /\ locals' = NoLocals
    /\ searchCalls' = <<>>
    /\ outcome' = NoOutcome
    /\ replies' = <<>>
    /\ logged' = <<>>
    /\ UNCHANGED <<pluginVars, deltaVars, classifyVars>>

\* lines 266-277: the indexer runs the registered handler on a delta
HandleDelta(d) ==
    /\ deltaIn' = d
    /\ delta' = DeltaHandler(deltaHandlers[1], d)
    /\ UNCHANGED <<pluginVars, requestVars, classifyVars>>

\* lines 55-73 and 123-132: getIntervalConfig called on a token as it is
ClassifyToken(t) ==
    /\ token' = t
    /\ via' = "direct"
    /\ classified' = getIntervalConfig(t)
    /\ histogramConfig' = dateHistogramConfig(getIntervalConfig(t))
    /\ UNCHANGED <<pluginVars, requestVars, deltaVars>>

\* lines 104 and 123-132: getIntervalConfig called as the handler calls it
ClassifyQueryInterval(t) ==
    /\ token' = t
    /\ via' = "query"
    /\ classified' = Defaults(baseConfig, [EmptyQuery EXCEPT !.interval = t]).intervalConfig
    /\ histogramConfig' =
           dateHistogramConfig(
               Defaults(baseConfig, [EmptyQuery EXCEPT !.interval = t]).intervalConfig)
    /\ UNCHANGED <<pluginVars, requestVars, deltaVars>>

----------------------------------------------------------------------------
(* Specifications *)

\* the request pipeline
Next ==
    \/ \E q \in Queries, n1 \in NowValues :
           \E n2 \in {n \in NowValues : n >= n1} : HandleRequest(q, n1, n2)
    \/ \E res \in QueryResults : SearchResolves(res)
    \/ \E e \in StoreErrors : SearchRejects(e)
    \/ GetOracleDatapoints
    \/ Finish

Spec == Init /\ [][Next]_vars

\* response shaping, over every well-formed result of the store
ShapeQueries ==
    {EmptyQuery,
     [EmptyQuery EXCEPT !.scope = Str("eosusd"), !.interval = Str("2h"),
                        !.after = Str("2024-01-01T00:00:00Z"),
                        !.before = Str("2024-01-02"), !.size = Num(2)]}

NextShape ==
    \/ \E q \in ShapeQueries : HandleRequest(q, BaseNow, BaseNow)
    \/ \E res \in ShapeResults : SearchResolves(res)
    \/ Finish

ShapeConfigs ==
    {[table |-> Undef, contract |-> Undef],
     [table |-> Str("prices"), contract |-> Str("myoracle")]}

InitShape == Init /\ config \in ShapeConfigs

SpecShape == InitShape /\ [][NextShape]_vars

\* ingestion
NextIngest == \E d \in DeltasFor(deltaHandlers[1]) : HandleDelta(d)

SpecIngest == Init /\ [][NextIngest]_vars

\* interval classification
NextClassify ==
    \/ \E t \in Tokens : ClassifyToken(t)
    \/ \E t \in Tokens : ClassifyQueryInterval(t)

SpecClassify == Init /\ [][NextClassify]_vars

----------------------------------------------------------------------------
(* Claims *)

InCalendar(t) == includes(CALENDAR_INTERVALS, t)
InFixed(t) == includes(FIXED_INTERVALS, t)
DefaultInterval == [interval |-> "1h", type |-> "calendar"]

\* C1 as stated: a token of the calendar whitelist classifies as (token,
\* calendar), a token of the fixed whitelist as (token, fixed), any other
\* token, the empty and the absent one included, as ('1h', calendar).
C1_AsStated ==
    via # "none" =>
        /\ InCalendar(token) =>
               classified = [interval |-> token.s, type |-> "calendar"]
        /\ InFixed(token) =>
               classified = [interval |-> token.s, type |-> "fixed"]
        /\ (~InCalendar(token) /\ ~InFixed(token)) =>
               classified = DefaultInterval

\* C1 amended: the whitelists overlap, and the calendar one is looked up
\* first.  A token of the calendar whitelist classifies as (token, calendar);
\* a token of the fixed whitelist that is not in the calendar one as (token,
\* fixed); any other token as ('1h', calendar).
C1_CalendarFirst ==
    via # "none" =>
        /\ InCalendar(token) =>
               classified = [interval |-> token.s, type |-> "calendar"]
        /\ (InFixed(token) /\ ~InCalendar(token)) =>
               classified = [interval |-> token.s, type |-> "fixed"]
        /\ (~InCalendar(token) /\ ~InFixed(token)) =>
               classified = DefaultInterval

\* a token of both whitelists has been classified, as calendar
C1_Witness ==
    /\ via = "direct"
    /\ token = Str("1w")
    /\ InCalendar(token) /\ InFixed(token)
    /\ classified = [interval |-> "1w", type |-> "calendar"]

\* the reply of a request that has replied
TheReply == replies[1]
HistogramReplied ==
    /\ route = "get_datapoints_histogram"
    /\ pc = "replied"
    /\ Len(replies) = 1
Succeeded == HistogramReplied /\ TheReply.kind = "histogram"

StatNames == {"average_price", "min_price", "max_price", "median_price"}

\* the store reported a value for this statistic of the bucket
Reported(st) == st.present /\ st.value.k = "number"

\* C2: each of the four statistics of a shaped bucket is the value the store
\* reported whenever it reported one (zero included), and is null only when
\* the store reported none, whatever the bucket's other statistics are.
C2_StatisticsPreserved ==
    (Succeeded /\ outcome.kind = "resolved" /\ HasBuckets(outcome.results)) =>
        \A i \in 1..Len(outcome.results.buckets) :
            \A name \in StatNames :
                LET st  == outcome.results.buckets[i][name]
                    out == TheReply.body.histogram[i][name]
                IN  /\ Reported(st) => out = st.value
                    /\ out = Null => ~Reported(st)

\* what window resolution, the search or response shaping raised
WindowRaised ==
    \/ Truthy(query.after) /\ ~NewDate(query.after.s).valid
    \/ Truthy(query.before) /\ ~NewDate(query.before.s).valid
ShapingRaised ==
    /\ outcome.kind = "resolved"
    /\ \/ ~outcome.results.defined
       \/ HasBuckets(outcome.results) /\ ~outcome.results.bucketsIsArray
Raised == WindowRaised \/ outcome.kind = "rejected" \/ ShapingRaised
RaisedMessage ==
    IF WindowRaised THEN "Invalid time value"
    ELSE IF outcome.kind = "rejected" THEN outcome.error.message
    ELSE IF ~outcome.results.defined
         THEN "Cannot read properties of undefined (reading 'hits')"
    ELSE "results.aggregations.histogram.buckets.map is not a function"

\* C3: a histogram request in which window resolution, the search or
\* response shaping raises gets exactly one reply: status 500, error
\* 'Internal server error', message the raised error's message; no success
\* reply is sent, and no request ever has more than one reply.
C3_ErrorReply ==
    /\ Len(replies) <= 1
    /\ (route = "get_datapoints_histogram" /\ pc = "replied" /\ Raised) =>
           /\ Len(replies) = 1
           /\ TheReply = [status |-> 500, kind |-> "error",
                          body |-> [error |-> "Internal server error",
                                    message |-> RaisedMessage]]
    /\ pc = "awaiting" => replies = <<>>

\* the store rejected the search and the caller got the 500 reply
C3_Witness ==
    /\ HistogramReplied
    /\ outcome.kind = "rejected"
    /\ outcome.error.message = "connect ECONNREFUSED"
    /\ TheReply.status = 500
    /\ TheReply.body.message = "connect ECONNREFUSED"

\* C4: total_documents is the match total the store reported, 0 when it
\* reported none; a result with no bucket list or an empty one is a success
\* with an empty histogram; otherwise the histogram has the bucket list's
\* length and order, each entry with its bucket's doc_count and its
\* key_as_string, or its raw key when key_as_string is absent.
C4_TotalsAndBuckets ==
    (route = "get_datapoints_histogram" /\ pc = "replied"
        /\ outcome.kind = "resolved") =>
        LET res == outcome.results
            h   == TheReply.body.histogram
        IN  /\ Len(replies) = 1
            /\ TheReply.status = 200
            /\ TheReply.kind = "histogram"
            /\ TheReply.body.total_documents =
                   (IF res.hasHits /\ res.total # Undef THEN res.total
                    ELSE Num(0))
            /\ (~HasBuckets(res) \/ res.buckets = <<>>) => Len(h) = 0
            /\ HasBuckets(res) =>
                   /\ Len(h) = Len(res.buckets)
                   /\ \A i \in 1..Len(res.buckets) :
                          /\ h[i].doc_count = res.buckets[i].doc_count
                          /\ h[i].timestamp =
                                 (IF res.buckets[i].key_as_string # Undef
                                  THEN res.buckets[i].key_as_string
                                  ELSE res.buckets[i].key)

\* two buckets with different keys, the first without key_as_string, shaped
C4_Witness ==
    /\ Succeeded
    /\ outcome.results.hasHits /\ outcome.results.total = Num(5)
    /\ Len(outcome.results.buckets) = 2
    /\ outcome.results.buckets[1].key_as_string = Undef
    /\ outcome.results.buckets[1].key = Num(HourMs)
    /\ outcome.results.buckets[2].key = Num(0)
    /\ outcome.results.buckets[2].key_as_string # Undef
    /\ Len(TheReply.body.histogram) = 2
    /\ TheReply.body.histogram[1].timestamp = Num(HourMs)

\* the one search call of a request that made it
TheCall == searchCalls[1]
Searched == route = "get_datapoints_histogram" /\ Len(searchCalls) = 1

\* C5: with no 'after' the window starts at now - 24h, with no 'before' it
\* ends at now; an 'after' and a 'before' that parse give exactly their
\* instants; the same pair is the gte/lte of the timestamp filter and the
\* time_range of the response; and the request is submitted as it is, also
\* when from > to.
C5_Window ==
    /\ (route = "get_datapoints_histogram" /\ ~WindowRaised) =>
           Len(searchCalls) = 1
    /\ Searched =>
           /\ ~Truthy(query.after) =>
                  TheCall.range.gte = IsoText(clockReads[1] - DayMs)
           /\ ~Truthy(query.before) =>
                  TheCall.range.lte = IsoText(clockReads[Len(clockReads)])
           /\ Truthy(query.after) =>
                  NewDate(TheCall.range.gte) = NewDate(query.after.s)
           /\ Truthy(query.before) =>
                  NewDate(TheCall.range.lte) = NewDate(query.before.s)
           /\ NewDate(TheCall.range.gte).valid
           /\ NewDate(TheCall.range.lte).valid
           /\ Succeeded =>
                  TheReply.body.time_range =
                      [from |-> TheCall.range.gte, to |-> TheCall.range.lte]

\* a window with from after to went to the store and came back in the reply
C5_Witness ==
    /\ Succeeded
    /\ query.after = Str("2024-01-02T00:00:00.000Z")
    /\ query.before = Str("2024-01-01T00:00:00Z")
    /\ NewDate(TheCall.range.gte).ms > NewDate(TheCall.range.lte).ms
    /\ TheReply.body.time_range.from = "2024-01-02T00:00:00.000Z"
    /\ TheReply.body.time_range.to = "2024-01-01T00:00:00.000Z"

\* the defaults of scope, contract and table
DefaultOf(name) ==
    CASE name = "scope" -> "tlosusd"
      [] name = "contract" -> "delphioracle"
      [] name = "table" -> "datapoints"

\* what the request and the static configuration supply for them
Supplied(name) == IF name = "scope" THEN query.scope ELSE config[name]

\* what the search's term filters and the response carry for them
Filtered(name) ==
    CASE name = "scope" -> TheCall.scope
      [] name = "contract" -> TheCall.code
      [] name = "table" -> TheCall.table

\* C6 as stated: an omitted scope, contract or table takes its default, a
\* supplied value is used as given, and the effective values are those of the
\* three term filters and of the response's scope, contract and table.
C6_AsStated ==
    Searched =>
        \A name \in {"scope", "contract", "table"} :
            /\ Supplied(name) = Undef => Filtered(name) = DefaultOf(name)
            /\ Supplied(name) # Undef => Filtered(name) = Supplied(name).s
            /\ Succeeded => TheReply.body[name] = Filtered(name)

\* C6 amended: an omitted or empty scope, contract or table takes its
\* default, a supplied non-empty value is used as given, and the effective
\* values are those of the three term filters and of the response's scope,
\* contract and table.
C6_Defaults ==
    Searched =>
        \A name \in {"scope", "contract", "table"} :
            /\ ~Truthy(Supplied(name)) => Filtered(name) = DefaultOf(name)
            /\ Truthy(Supplied(name)) => Filtered(name) = Supplied(name).s
            /\ Succeeded => TheReply.body[name] = Filtered(name)

\* an empty scope and a custom table, searched and answered
C6_Witness ==
    /\ Succeeded
    /\ query.scope = Str("")
    /\ config.table = Str("prices")
    /\ config.contract = Undef
    /\ TheReply.body.scope = "tlosusd"
    /\ TheReply.body.table = "prices"
    /\ TheReply.body.contract = "delphioracle"

\* the configured table name
ConfiguredTable == IF Truthy(config.table) THEN config.table.s ELSE "datapoints"

\* the handler has run on a delta
Handled == deltaIn.hasData

\* the payload has non-empty value, median and owner
Complete(d) ==
    Truthy(d.data.value) /\ Truthy(d.data.median) /\ Truthy(d.data.owner)

\* C7: a delta whose payload has non-empty value, median and owner leaves the
\* handler with a nested object under '@' + the configured table name holding
\* exactly those three values, and without its 'data'; a delta whose payload
\* lacks one of them leaves it unchanged.
C7_Transform ==
    Handled =>
        IF Complete(deltaIn)
        THEN /\ delta.nested = [present |-> TRUE,
                                key |-> "@" \o ConfiguredTable,
                                owner |-> deltaIn.data.owner,
                                value |-> deltaIn.data.value,
                                median |-> deltaIn.data.median]
             /\ ~delta.hasData
             /\ delta.data = NoDelta.data
             /\ delta.code = deltaIn.code
             /\ delta.table = deltaIn.table
             /\ delta.scope = deltaIn.scope
        ELSE delta = deltaIn

\* a complete delta of a custom table has been rewritten
C7_Witness ==
    /\ Handled
    /\ config.table = Str("prices")
    /\ deltaIn.data = [value |-> Num(5), median |-> Str("12345"),
                       owner |-> Str("alice")]
    /\ delta.nested.present
    /\ delta.nested.key = "@prices"
    /\ ~delta.hasData

\* C8 as stated: every histogram request makes exactly one search call before
\* it replies, whatever its parameters, never a second one, and replies only
\* after the search has returned or failed.
C8_AsStated ==
    route = "get_datapoints_histogram" =>
        /\ Len(searchCalls) <= 1
        /\ replies # <<>> => (Len(searchCalls) = 1 /\ outcome.kind # "none")

\* C8 amended: a histogram request makes at most one search call; it makes
\* exactly one before it replies unless its 'after' or 'before' does not
\* parse, and then it makes none; a rejected search is not repeated; and a
\* request that searched replies only after the search returned or failed.
C8_OneSearch ==
    route = "get_datapoints_histogram" =>
        /\ Len(searchCalls) <= 1
        /\ replies # <<>> =>
               Len(searchCalls) = (IF WindowRaised THEN 0 ELSE 1)
        /\ (replies # <<>> /\ ~WindowRaised) => outcome.kind # "none"
        /\ outcome.kind # "none" => Len(searchCalls) = 1

\* a rejected search, answered without a second search
C8_Witness ==
    /\ HistogramReplied
    /\ outcome.kind = "rejected"
    /\ Len(searchCalls) = 1
    /\ TheReply.status = 500

\* C9 as stated: a request whose 'after' or 'before' does not parse is not
\* rejected by the pipeline: the aggregation request is still built, with an
\* invalid-timestamp marker as that bound, and submitted to the store.
C9_AsStated ==
    (route = "get_datapoints_histogram" /\ WindowRaised) =>
        Len(searchCalls) = 1

\* C9 amended: a request whose 'after' or 'before' does not parse is rejected
\* by the pipeline itself: serialising the invalid date raises 'Invalid time
\* value', no aggregation request is submitted to the store, and the caller
\* gets the 500 reply with that message.
C9_InvalidDateRejected ==
    (route = "get_datapoints_histogram" /\ WindowRaised) =>
        /\ searchCalls = <<>>
        /\ outcome.kind = "none"
        /\ pc = "replied"
        /\ replies = <<[status |-> 500, kind |-> "error",
                        body |-> [error |-> "Internal server error",
                                  message |-> "Invalid time value"]]>>

\* an unparseable 'before' after a parseable 'after', answered with 500
C9_Witness ==
    /\ HistogramReplied
    /\ query.after = Str("2024-01-01T00:00:00Z")
    /\ query.before = Str("not-a-date")
    /\ searchCalls = <<>>
    /\ TheReply.status = 500

\* C10: whatever the configured table, the field the delta handler writes
\* value and median under ('@' + the configured table name) is the field the
\* four per-bucket statistics of the search aggregate over.
C10_FieldAgreement ==
    Searched =>
        /\ TheCall.aggs.average_price.field = deltaHandlers[1].key \o ".value"
        /\ TheCall.aggs.min_price.field = deltaHandlers[1].key \o ".value"
        /\ TheCall.aggs.max_price.field = deltaHandlers[1].key \o ".value"
        /\ TheCall.aggs.median_price.field = deltaHandlers[1].key \o ".median"

====
